---- MODULE Spec2Model ----
(***************************************************************************)
(* State-machine model of the shopping-cart / ticket handlers of the       *)
(* store bot (cogs/ticket_system.py), the order handlers that share the    *)
(* ledger and the order counter with them (cogs/order_processing.py,       *)
(* cogs/marketing.py, cogs/admin.py) and the persistence gateway           *)
(* (main.py: _load_data_from_db / _save_data_to_db).                       *)
(*                                                                         *)
(* Scheduling.  Every handler is an asyncio task.  A task is suspended     *)
(* only at calls into the chat platform (defer, followup.send,             *)
(* message.edit, fetch_user, ...).  bot.load_json and bot.save_json do not *)
(* suspend: asyncio.Lock.acquire returns at once on a free lock, the body  *)
(* of the gateway runs synchronous psycopg2 calls and holds db_lock over   *)
(* no suspension point, so the lock is never found taken.  The code        *)
(* between two platform calls is therefore one atomic block, and one       *)
(* action below models one such block.  A handler whose state changes all  *)
(* lie in one block is one action; Confirm and mark_delivered span         *)
(* several blocks and are tasks with a program counter.                    *)
(*                                                                         *)
(* Representation.  Discord ids are written as their decimal text, so      *)
(* str(id) is the id itself and str(None) is the text "None".  An order id *)
(* "ORD%04d" % n is represented by n (the format is injective); 0 stands   *)
(* for "no order".  Money is in whole rupees.                              *)
(***************************************************************************)
EXTENDS Integers, Sequences, FiniteSets, Bags, TLC

(***************************************************************************)
(* Bounds of the model                                                     *)
(***************************************************************************)
MaxOrders == 2
MaxQty == 2
MaxTasks == 2
MaxFaults == 1
MaxUsesN == 2

(***************************************************************************)
(* Program constants and configuration                                     *)
(***************************************************************************)
None == "None"
NoOrder == 0
InfiniteStock == -1
Infinity == -1
NullNum == -2
NewUserDiscount == 3

Channels == {"c1", "c2"}
Users == {"101", "102", "900"}
StaffIds == {"900"}
\* config['owner_ids']: the owner acts on the staff controls and in no cart
OwnerIds == {"999"}
Products == {"A", "B"}

CreatorOf(ch) == IF ch = "c1" THEN "101" ELSE "102"
Participants(ch) == {CreatorOf(ch)} \cup StaffIds
\* the members of the private thread who are neither its creator nor staff
Guests(ch) == Users \ Participants(ch)

RoleDiscounts == << [role_id |-> "gold", discount_percent |-> 50],
                    [role_id |-> "vip", discount_percent |-> 10] >>
UserRoles(u) == IF u = "102" THEN {"vip", "gold"} ELSE {}

Codes == {"REF-900", "REDEEM-A", "SAVE5", "REF-NONE", "BOGUS", "REWARD-X"}
StartsWithRef(code) == code \in {"REF-900", "REF-NONE"}
ContainsRedeem(code) == code \in {"REDEEM-A"}

VARIABLES
    tickets,      \* bot.active_tickets: channel id -> ticket state
    productsDb,   \* table products
    ordersDb,     \* table orders: order number -> row
    countersDb,   \* table counters: last_order_number
    discountsDb,  \* table discounts: code -> row
    referralsDb,  \* table referrals: code -> referrer id
    usersDb,      \* table users: id -> points
    tasks,        \* bag of suspended handlers (Confirm, mark_delivered)
    faultsLeft,   \* psycopg2 errors the gateway may still raise in a save
    reply,        \* the last answer sent to an actor
    allocated,    \* history: the order numbers handed out, in order
    addOk,        \* history: successful AddItem answers per ticket and product
    consumed,     \* history: codes consumed by ApplyCode per ticket since the discount was last cleared
    promoOk,      \* history: successful applications per discount code
    redeemed      \* history: redeem codes marked used and not reverted by Cancel

vars == << tickets, productsDb, ordersDb, countersDb, discountsDb, referralsDb, usersDb,
           tasks, faultsLeft, reply, allocated, addOk, consumed, promoOk, redeemed >>

(***************************************************************************)
(* Helpers                                                                 *)
(***************************************************************************)
NoReason == [kind |-> "none", code |-> None]
CodeReason(code) == [kind |-> "code", code |-> code]
ReferralReason(code) == [kind |-> "referral", code |-> code]
RoleReason(role) == [kind |-> "role", code |-> role]

NoReferral == [code |-> None, referrer_id |-> None]

NewTicket(u) ==
    [creator_id |-> u, category |-> "BUY", status |-> "Open", cart |-> << >>,
     discount |-> 0, discount_reason |-> NoReason, referral_info |-> NoReferral,
     order_id |-> NoOrder, gift_recipient_id |-> None, claimed_by |-> None]

\* the answer a handler sends to the actor: the handler and its verdict
Reply(op, result) == [op |-> op, result |-> result]

RECURSIVE SumOver(_, _)
SumOver(f, S) ==
    IF S = {} THEN 0
    ELSE LET x == CHOOSE y \in S : TRUE IN f[x] + SumOver(f, S \ {x})

CartTotal(cart) ==
    SumOver([p \in DOMAIN cart |-> cart[p].price * cart[p].quantity], DOMAIN cart)

Put(f, k, v) == [x \in (DOMAIN f) \cup {k} |-> IF x = k THEN v ELSE f[x]]

InitProducts ==
    [p \in Products |->
        IF p = "A" THEN [name |-> "Alpha", price |-> 10, stock |-> 2]
        ELSE [name |-> "Beta", price |-> 20, stock |-> InfiniteStock]]

\* the discounts table holds one redeem code, migrated for user 101 with no
\* max_uses; promotional codes come from create_discount
InitDiscounts ==
    [c \in {"REDEEM-A"} |->
        [type |-> "redeem", discount_inr |-> 5, max_uses |-> NullNum, uses |-> 0,
         expired |-> FALSE, is_active |-> TRUE, generated_by |-> "101"]]

\* the table after the migration of a registry that also holds a referrer
\* reward code: mark_delivered builds it with 'generated_for_referrer_id' and
\* without 'generated_by' and 'max_uses', so both columns are NULL
RewardDiscounts ==
    [c \in {"REDEEM-A", "REWARD-X"} |->
        IF c = "REDEEM-A" THEN InitDiscounts[c]
        ELSE [type |-> "redeem", discount_inr |-> 5, max_uses |-> NullNum, uses |-> 0,
              expired |-> FALSE, is_active |-> TRUE, generated_by |-> None]]

(***************************************************************************)
(* Persistence gateway                                                      *)
(***************************************************************************)
\* _load_data_from_db('discounts'): 0 in max_uses reads as unlimited, the
\* column set has no "used", every loaded entry reads used = False
LoadDiscountRow(row) ==
    [type |-> row.type, discount_inr |-> row.discount_inr,
     max_uses |-> IF row.max_uses = 0 THEN Infinity ELSE row.max_uses,
     uses |-> row.uses, expired |-> row.expired, is_active |-> row.is_active,
     used |-> FALSE, generated_by |-> row.generated_by]

LoadDiscounts(db) == [c \in DOMAIN db |-> LoadDiscountRow(db[c])]

\* _save_data_to_db('discounts'): upsert of every entry, "used" is not a column
SaveDiscountRow(d) ==
    [type |-> d.type, discount_inr |-> d.discount_inr,
     max_uses |-> IF d.max_uses = Infinity THEN 0 ELSE d.max_uses,
     uses |-> d.uses, expired |-> d.expired, is_active |-> d.is_active,
     generated_by |-> d.generated_by]

SaveDiscounts(db, data) ==
    [c \in (DOMAIN db) \cup (DOMAIN data) |->
        IF c \in DOMAIN data THEN SaveDiscountRow(data[c]) ELSE db[c]]

\* _save_data_to_db('orders'), the row written for one entry of data: the
\* referral columns come from the entry's 'referral_info', which only a
\* handler can have put there (a loaded order carries the two columns under
\* 'referral_code_used' and 'referrer_discord_id' and no 'referral_info')
OrderRow(o_data) ==
    [user_id |-> o_data.user_id, items |-> o_data.items, status |-> o_data.status,
     discount |-> o_data.discount, discount_reason |-> o_data.discount_reason,
     gift_recipient_id |-> o_data.gift_recipient_id, channel_id |-> o_data.channel_id,
     referral_code_used |-> IF "referral_info" \in DOMAIN o_data
                            THEN o_data.referral_info.code ELSE None,
     referrer_discord_id |-> IF "referral_info" \in DOMAIN o_data
                             THEN o_data.referral_info.referrer_id ELSE None]

\* _save_data_to_db('orders'): upsert of every entry of data, then delete of
\* every row whose id is not a key of data
SaveOrders(db, data) == [o \in DOMAIN data |-> OrderRow(data[o])]

\* the outcomes of one save: TRUE committed, FALSE psycopg2.Error, rolled
\* back and swallowed by the gateway (main.py:354-356)
SaveOutcomes == IF faultsLeft > 0 THEN {TRUE, FALSE} ELSE {TRUE}
Fault(ok) == IF ok THEN faultsLeft ELSE faultsLeft - 1

\* no handler is inside a block (between two statements that no suspension
\* point separates)
NoneRunning == \A t \in BagToSet(tasks) : t.pc # "save_orders"

(***************************************************************************)
(* AddItem: ProductSelect.callback.  The handler reads interaction.user    *)
(* only to rename the thread; its answer does not depend on the actor.     *)
(***************************************************************************)
\* the stock check with the comparison off by one
StockExceededStrict(stock, qty) == stock # InfiniteStock /\ qty > stock

StockExceeded(stock, qty) == stock # InfiniteStock /\ qty >= stock

CartQty(cart, pid) == IF pid \in DOMAIN cart THEN cart[pid].quantity ELSE 0

\* the add that takes the name and the price of the catalog again for a
\* product the cart already holds
AddToCartRefreshed(cart, pid, product) ==
    IF pid \in DOMAIN cart
    THEN [cart EXCEPT ![pid] = [name |-> product.name, price |-> product.price,
                                quantity |-> @.quantity + 1]]
    ELSE Put(cart, pid, [name |-> product.name, price |-> product.price, quantity |-> 1])

\* lines 277-281
AddToCart(cart, pid, product) ==
    IF pid \in DOMAIN cart
    THEN [cart EXCEPT ![pid].quantity = @ + 1]
    ELSE Put(cart, pid, [name |-> product.name, price |-> product.price, quantity |-> 1])

AddItem(ch, pid) ==
    /\ NoneRunning
    /\ UNCHANGED << productsDb, ordersDb, countersDb, discountsDb, referralsDb, usersDb,
                    tasks, faultsLeft, allocated, consumed, promoOk, redeemed >>
    /\ IF ch \notin DOMAIN tickets
       THEN /\ reply' = Reply("AddItem", "no_ticket")
            /\ UNCHANGED << tickets, addOk >>
       ELSE IF pid \notin DOMAIN productsDb
       THEN /\ reply' = Reply("AddItem", "not_found")
            /\ UNCHANGED << tickets, addOk >>
       ELSE IF StockExceeded(productsDb[pid].stock, CartQty(tickets[ch].cart, pid))
       THEN /\ reply' = Reply("AddItem", "stock_exceeded")
            /\ UNCHANGED << tickets, addOk >>
       ELSE /\ productsDb[pid].stock = InfiniteStock => CartQty(tickets[ch].cart, pid) < MaxQty
            /\ tickets' = [tickets EXCEPT ![ch].cart = AddToCart(@, pid, productsDb[pid])]
            /\ addOk' = [addOk EXCEPT ![ch][pid] = @ + 1]
            /\ reply' = Reply("AddItem", "ok")

(***************************************************************************)
(* ApplyCode: DiscountCodeModal.on_submit                                  *)
(***************************************************************************)
\* the handler without the check of line 370
DiscountNeverChecked(ticket_state) == FALSE

DiscountAlreadyApplied(ticket_state) == ticket_state.discount > 0

\* the new-customer check with no order taken for a past one
NoPastOrders(orders, u) == FALSE

HasPastOrders(orders, u) ==
    \E o \in DOMAIN orders : orders[o].user_id = u /\ orders[o].status = "Delivered"

\* 'generated_by' in discount_info and str(user.id) != str(discount_info['generated_by'])
NotGeneratedFor(discount_info, u) == u # discount_info.generated_by

\* the max_uses check with the comparison off by one
PromoExhaustedStrict(discount_info) ==
    discount_info.max_uses # Infinity /\ discount_info.uses > discount_info.max_uses

PromoExhausted(discount_info) ==
    discount_info.max_uses # Infinity /\ discount_info.uses >= discount_info.max_uses

\* the answer of the checks of lines 449-499 on the loaded registry
CodeVerdict(discounts_db, code, u) ==
    IF code \notin DOMAIN discounts_db THEN "invalid_code"
    ELSE LET discount_info == discounts_db[code] IN
         IF discount_info.type = "redeem"
         THEN IF discount_info.used THEN "already_used"
              ELSE IF NotGeneratedFor(discount_info, u) THEN "not_yours"
              ELSE IF discount_info.discount_inr <= 0 THEN "bad_amount"
              ELSE "ok"
         ELSE IF discount_info.type = "promo"
         THEN IF ~discount_info.is_active THEN "inactive"
              ELSE IF PromoExhausted(discount_info) THEN "max_uses"
              ELSE IF discount_info.expired THEN "expired"
              ELSE IF discount_info.discount_inr <= 0 THEN "bad_amount"
              ELSE "ok"
         ELSE "unknown_type"

\* lines 464 and 487: the entry of the code as the handler saves it
ConsumeCode(discounts_db, code) ==
    IF discounts_db[code].type = "redeem"
    THEN [discounts_db EXCEPT ![code].used = TRUE]
    ELSE [discounts_db EXCEPT ![code].uses = @ + 1]

\* lines 502-503 with the reason stored and the amount left out
WithReasonOnly(ticket_state, discount_amount, reason) ==
    [ticket_state EXCEPT !.discount_reason = reason]

\* lines 502-503 (and 413-414): the ticket state with the discount applied
WithDiscount(ticket_state, discount_amount, reason) ==
    [ticket_state EXCEPT !.discount = discount_amount, !.discount_reason = reason]

ReferralVerdict(code, u) ==
    IF code \notin DOMAIN referralsDb THEN "invalid_referral"
    ELSE IF u = referralsDb[code] THEN "own_referral"
    ELSE IF HasPastOrders(ordersDb, u) THEN "not_new_customer"
    ELSE IF NewUserDiscount <= 0 THEN "bad_amount"
    ELSE "ok"

ApplyCode(ch, u, code) ==
    /\ NoneRunning
    /\ UNCHANGED << productsDb, ordersDb, countersDb, referralsDb, usersDb, tasks,
                    allocated, addOk >>
    /\ IF ch \notin DOMAIN tickets
       THEN /\ reply' = Reply("ApplyCode", "no_ticket")
            /\ UNCHANGED << tickets, discountsDb, faultsLeft, consumed, promoOk, redeemed >>
       ELSE IF DiscountAlreadyApplied(tickets[ch])
       THEN /\ reply' = Reply("ApplyCode", "already_applied")
            /\ UNCHANGED << tickets, discountsDb, faultsLeft, consumed, promoOk, redeemed >>
       ELSE IF StartsWithRef(code)
       THEN /\ reply' = Reply("ApplyCode", ReferralVerdict(code, u))
            /\ UNCHANGED << discountsDb, faultsLeft, consumed, promoOk, redeemed >>
            /\ IF ReferralVerdict(code, u) = "ok"
               THEN tickets' = [tickets EXCEPT
                        ![ch] = [WithDiscount(@, NewUserDiscount, ReferralReason(code)) EXCEPT
                                    !.referral_info = [code |-> code,
                                                       referrer_id |-> referralsDb[code]]]]
               ELSE UNCHANGED tickets
       ELSE LET discounts_db == LoadDiscounts(discountsDb)
                verdict == CodeVerdict(discounts_db, code, u)
            IN /\ reply' = Reply("ApplyCode", verdict)
               /\ IF verdict = "ok"
                  THEN /\ tickets' = [tickets EXCEPT
                               ![ch] = WithDiscount(@, discounts_db[code].discount_inr,
                                                    CodeReason(code))]
                       /\ \E ok \in SaveOutcomes :
                            /\ faultsLeft' = Fault(ok)
                            /\ discountsDb' = IF ok
                                 THEN SaveDiscounts(discountsDb, ConsumeCode(discounts_db, code))
                                 ELSE discountsDb
                       /\ consumed' = [consumed EXCEPT ![ch] = @ \cup {code}]
                       /\ promoOk' = IF discounts_db[code].type = "promo"
                                     THEN [promoOk EXCEPT ![code] = @ + 1] ELSE promoOk
                       /\ redeemed' = IF discounts_db[code].type = "redeem"
                                      THEN redeemed \cup {code} ELSE redeemed
                  ELSE UNCHANGED << tickets, discountsDb, faultsLeft, consumed, promoOk, redeemed >>

(***************************************************************************)
(* Cancel: ShoppingCartView.cancel_order                                   *)
(***************************************************************************)
\* '"REDEEM-" in discount_reason' and the first parenthesised group of it
UsedCodeOf(discount_reason) ==
    IF discount_reason.kind = "code" /\ ContainsRedeem(discount_reason.code)
    THEN discount_reason.code ELSE None

\* lines 778-779 on the freshly loaded registry
RevertsCode(discounts_db, used_code, u) ==
    /\ used_code \in DOMAIN discounts_db
    /\ discounts_db[used_code].type = "redeem"
    /\ discounts_db[used_code].used
    /\ discounts_db[used_code].generated_by = u

\* the Cancel that hands a redeem code back to its owner: the acting user is
\* the one the code of the ticket's discount was generated for
ReturnsCode(discounts_db, used_code, u) ==
    /\ used_code \in DOMAIN discounts_db
    /\ discounts_db[used_code].type = "redeem"
    /\ discounts_db[used_code].generated_by = u

\* the check of line 761 without the comparison of the status
CanCancelAny(orders_db, order_id) == order_id \in DOMAIN orders_db

CanCancel(orders_db, order_id) ==
    order_id \in DOMAIN orders_db /\ orders_db[order_id].status = "Pending Payment"

\* the pops of lines 785-788 reduced to the one of order_id
ClearOrderIdOnly(ticket_state) == [ticket_state EXCEPT !.order_id = NoOrder]

\* the pops of lines 785-788 made only on a ticket nobody has claimed
ClearOnlyUnclaimed(ticket_state) ==
    IF ticket_state.claimed_by = None
    THEN [ticket_state EXCEPT !.order_id = NoOrder, !.discount = 0,
                              !.discount_reason = NoReason, !.gift_recipient_id = None]
    ELSE ticket_state

ClearOrderInfo(ticket_state) ==
    [ticket_state EXCEPT !.order_id = NoOrder, !.discount = 0,
                         !.discount_reason = NoReason, !.gift_recipient_id = None]

Cancel(ch, u) ==
    /\ NoneRunning
    /\ UNCHANGED << productsDb, countersDb, referralsDb, usersDb, tasks, allocated, addOk, promoOk >>
    /\ IF ch \notin DOMAIN tickets
       THEN /\ reply' = Reply("Cancel", "no_ticket")
            /\ UNCHANGED << tickets, ordersDb, discountsDb, faultsLeft, consumed, redeemed >>
       ELSE IF tickets[ch].order_id = NoOrder
       THEN /\ reply' = Reply("Cancel", "no_order")
            /\ UNCHANGED << tickets, ordersDb, discountsDb, faultsLeft, consumed, redeemed >>
       ELSE IF ~CanCancel(ordersDb, tickets[ch].order_id)
       THEN /\ reply' = Reply("Cancel", "cannot_cancel")
            /\ UNCHANGED << tickets, ordersDb, discountsDb, faultsLeft, consumed, redeemed >>
       ELSE LET order_id == tickets[ch].order_id
                used_code == UsedCodeOf(tickets[ch].discount_reason)
                discounts_db == LoadDiscounts(discountsDb)
                revert == used_code # None /\ RevertsCode(discounts_db, used_code, u)
            IN /\ \E ok1 \in SaveOutcomes :
                    /\ ordersDb' = IF ok1
                          THEN SaveOrders(ordersDb, [ordersDb EXCEPT ![order_id].status = "Cancelled by User"])
                          ELSE ordersDb
                    /\ IF revert
                       THEN \E ok2 \in (IF Fault(ok1) > 0 THEN {TRUE, FALSE} ELSE {TRUE}) :
                              /\ discountsDb' = IF ok2
                                    THEN SaveDiscounts(discountsDb, [discounts_db EXCEPT ![used_code].used = FALSE])
                                    ELSE discountsDb
                              /\ faultsLeft' = IF ok2 THEN Fault(ok1) ELSE Fault(ok1) - 1
                       ELSE /\ discountsDb' = discountsDb
                            /\ faultsLeft' = Fault(ok1)
               /\ redeemed' = IF ReturnsCode(discounts_db, used_code, u)
                              THEN redeemed \ {used_code} ELSE redeemed
               /\ tickets' = [tickets EXCEPT ![ch] = ClearOrderInfo(@)]
               /\ consumed' = [consumed EXCEPT ![ch] = {}]
               /\ reply' = Reply("Cancel", "ok")

(***************************************************************************)
(* Confirm: ShoppingCartView.confirm, three blocks                         *)
(*   ConfirmStart  lines 616-683 (validation, tier discount, display)      *)
(*   ConfirmAlloc  lines 685-706 (order number, order entry, order_id)     *)
(*   ConfirmSave   lines 707-723 (save of the orders, payment message)     *)
(* ConfirmAlloc and ConfirmSave are one block for the scheduler: while a   *)
(* task stands between them no other handler runs (NoneRunning).           *)
(***************************************************************************)
\* entry records the discount and the discount_reason the ticket held when
\* the handler was entered (history, read by no handler)
Task(kind, pc, ch, user, final_discount, order_id, snap, entry) ==
    [kind |-> kind, pc |-> pc, ch |-> ch, user |-> user,
     final_discount |-> final_discount, order_id |-> order_id, snap |-> snap,
     entry |-> entry]

EntryOf(ticket_state) ==
    [discount |-> ticket_state.discount, discount_reason |-> ticket_state.discount_reason]

AddTask(t) == tasks (+) SetToBag({t})
DelTask(t) == tasks (-) SetToBag({t})

\* sorted(role_discounts_config, key=discount_percent, reverse=True): stable
RECURSIVE InsertDesc(_, _)
InsertDesc(sorted, r) ==
    IF sorted = << >> THEN << r >>
    ELSE IF Head(sorted).discount_percent >= r.discount_percent
         THEN << Head(sorted) >> \o InsertDesc(Tail(sorted), r)
         ELSE << r >> \o sorted

RECURSIVE SortDesc(_)
SortDesc(config) ==
    IF config = << >> THEN << >>
    ELSE InsertDesc(SortDesc(SubSeq(config, 1, Len(config) - 1)), config[Len(config)])

\* lines 659-670: the first entry of the sorted list whose role the actor holds
FirstHeld(sorted, roles) ==
    IF \E i \in 1..Len(sorted) : sorted[i].role_id \in roles
    THEN CHOOSE i \in 1..Len(sorted) :
            /\ sorted[i].role_id \in roles
            /\ \A j \in 1..(i - 1) : sorted[j].role_id \notin roles
    ELSE 0

RoleDiscountAmount(total_cart_value, discount_percent) ==
    (total_cart_value * discount_percent) \div 100

\* the handler without the loop of lines 630-644
NoStockViolations(cart, products_db) == {}

\* lines 630-644: the cart lines the stock re-validation refuses
StockViolations(cart, products_db) ==
    {pid \in DOMAIN cart :
        \/ pid \notin DOMAIN products_db
        \/ /\ products_db[pid].stock # InfiniteStock
           /\ cart[pid].quantity > products_db[pid].stock}

\* lines 646-674: the ticket state after the tier rule
WithTierDiscount(ticket_state, u) ==
    LET sorted == SortDesc(RoleDiscounts)
        i == FirstHeld(sorted, UserRoles(u))
        calculated == IF i = 0 THEN 0
                      ELSE RoleDiscountAmount(CartTotal(ticket_state.cart), sorted[i].discount_percent)
    IN IF ticket_state.discount = 0 /\ i # 0 /\ calculated > 0
       THEN [ticket_state EXCEPT !.discount = calculated,
                                 !.discount_reason = RoleReason(sorted[i].role_id)]
       ELSE ticket_state

\* counters.get('last_order_number', 0)
LastOrderNumber(counters) ==
    IF "last_order_number" \in DOMAIN counters THEN counters["last_order_number"] ELSE 0

\* the handler without the checks of lines 619 and 624
CartNeverEmpty(cart) == FALSE

\* not ticket_state.get("cart")
EmptyCart(cart) == DOMAIN cart = {}

\* a Confirm starts only while the bound leaves an order number for it
ConfirmStart(ch, u) ==
    /\ NoneRunning
    /\ UNCHANGED << productsDb, ordersDb, countersDb, discountsDb, referralsDb, usersDb,
                    faultsLeft, allocated, addOk, consumed, promoOk, redeemed >>
    /\ IF ch \notin DOMAIN tickets \/ EmptyCart(tickets[ch].cart)
       THEN /\ reply' = Reply("Confirm", "empty_cart")
            /\ UNCHANGED << tickets, tasks >>
       ELSE IF StockViolations(tickets[ch].cart, productsDb) # {}
       THEN /\ reply' = Reply("Confirm",
                              LET pid == CHOOSE p \in StockViolations(tickets[ch].cart, productsDb) : TRUE
                              IN IF pid \notin DOMAIN productsDb THEN "product_missing"
                                 ELSE "insufficient_stock")
            /\ UNCHANGED << tickets, tasks >>
       ELSE /\ BagCardinality(tasks) < MaxTasks
            /\ LastOrderNumber(countersDb) + BagCardinality(tasks) < MaxOrders
            /\ tickets' = [tickets EXCEPT ![ch] = WithTierDiscount(@, u)]
            /\ tasks' = AddTask(Task("confirm", "alloc", ch, u,
                                     WithTierDiscount(tickets[ch], u).discount, NoOrder, << >>,
                                     EntryOf(tickets[ch])))
            /\ reply' = Reply("Confirm", "validated")

\* the allocation that hands out the last number again
RepeatOrderNumber(last_order_number) ==
    IF last_order_number = 0 THEN 1 ELSE last_order_number

\* line 688: last_order_number + 1
NextOrderNumber(last_order_number) == last_order_number + 1

\* lines 695-704
NewOrder(u, ticket_state, final_discount, ch) ==
    [user_id |-> u, items |-> ticket_state.cart, status |-> "Pending Payment",
     discount |-> final_discount, discount_reason |-> ticket_state.discount_reason,
     gift_recipient_id |-> ticket_state.gift_recipient_id, channel_id |-> ch]

\* lines 686-691, shared with buy_now and ManualOrderModal.on_submit: the
\* counters table after the save of the incremented counter
\* the allocation without the save of line 691
CounterNotSaved(ok, new_order_number) == countersDb

SaveCounter(ok, new_order_number) ==
    IF ok THEN Put(countersDb, "last_order_number", new_order_number) ELSE countersDb

ConfirmAlloc(t) ==
    /\ NoneRunning
    /\ t.kind = "confirm" /\ t.pc = "alloc"
    /\ t.ch \in DOMAIN tickets
    /\ LET new_order_number == NextOrderNumber(LastOrderNumber(countersDb)) IN
       /\ new_order_number <= MaxOrders
       /\ \E ok \in SaveOutcomes :
            /\ countersDb' = SaveCounter(ok, new_order_number)
            /\ faultsLeft' = Fault(ok)
       /\ tickets' = [tickets EXCEPT ![t.ch].order_id = new_order_number]
       /\ tasks' = (DelTask(t)) (+) SetToBag({
             Task("confirm", "save_orders", t.ch, t.user, t.final_discount, new_order_number,
                  Put(ordersDb, new_order_number,
                      NewOrder(t.user, tickets[t.ch], t.final_discount, t.ch)),
                  t.entry)})
       /\ allocated' = Append(allocated, new_order_number)
       /\ reply' = Reply("Confirm", "allocated")
    /\ UNCHANGED << productsDb, ordersDb, discountsDb, referralsDb, usersDb,
                    addOk, consumed, promoOk, redeemed >>

ConfirmSave(t) ==
    /\ t.kind = "confirm" /\ t.pc = "save_orders"
    /\ \E ok \in SaveOutcomes :
         /\ ordersDb' = IF ok THEN SaveOrders(ordersDb, t.snap) ELSE ordersDb
         /\ faultsLeft' = Fault(ok)
    /\ tasks' = DelTask(t)
    /\ reply' = Reply("Confirm", "confirmed")
    /\ UNCHANGED << tickets, productsDb, countersDb, discountsDb, referralsDb, usersDb,
                    allocated, addOk, consumed, promoOk, redeemed >>

\* lines 678-683 raise (the cart message is gone, the API refuses the edit):
\* the handler of lines 725-727 reports the error, nothing is undone
ConfirmAbort(t) ==
    /\ NoneRunning
    /\ t.kind = "confirm" /\ t.pc = "alloc"
    /\ tasks' = DelTask(t)
    /\ reply' = Reply("Confirm", "error")
    /\ UNCHANGED << tickets, productsDb, ordersDb, countersDb, discountsDb, referralsDb,
                    usersDb, faultsLeft, allocated, addOk, consumed, promoOk, redeemed >>

\* the save of line 707 followed by a payment step that fails: the payment
\* cog is not loaded (710-713) or the payment message raises (715-727)
ConfirmPaymentFails(t) ==
    /\ t.kind = "confirm" /\ t.pc = "save_orders"
    /\ \E ok \in SaveOutcomes :
         /\ ordersDb' = IF ok THEN SaveOrders(ordersDb, t.snap) ELSE ordersDb
         /\ faultsLeft' = Fault(ok)
    /\ tasks' = DelTask(t)
    /\ \E result \in {"payment_gateway_missing", "error"} : reply' = Reply("Confirm", result)
    /\ UNCHANGED << tickets, productsDb, countersDb, discountsDb, referralsDb, usersDb,
                    allocated, addOk, consumed, promoOk, redeemed >>

(***************************************************************************)
(* Flash sale purchase: FlashSaleView.buy_now, the block of lines 139-166  *)
(* (the claim of the sale in lines 117-136 is a block of its own that      *)
(* touches only the view)                                                  *)
(***************************************************************************)
FlashOrder(u, product_id, sale_price) ==
    [user_id |-> u,
     items |-> Put(<< >>, product_id, [name |-> productsDb[product_id].name,
                                       price |-> sale_price, quantity |-> 1]),
     status |-> "Pending Payment", discount |-> 0, discount_reason |-> NoReason,
     gift_recipient_id |-> None, channel_id |-> None]

BuyNow(u, product_id, sale_price) ==
    /\ NoneRunning
    /\ LET new_order_number == NextOrderNumber(LastOrderNumber(countersDb)) IN
       /\ new_order_number <= MaxOrders
       /\ \E ok1 \in SaveOutcomes :
            /\ countersDb' = SaveCounter(ok1, new_order_number)
            /\ IF product_id \notin DOMAIN productsDb
               THEN /\ ordersDb' = ordersDb
                    /\ faultsLeft' = Fault(ok1)
                    /\ reply' = Reply("BuyNow", "product_missing")
               ELSE /\ \E ok2 \in (IF Fault(ok1) > 0 THEN {TRUE, FALSE} ELSE {TRUE}) :
                         /\ ordersDb' = IF ok2
                               THEN SaveOrders(ordersDb, Put(ordersDb, new_order_number,
                                                  FlashOrder(u, product_id, sale_price)))
                               ELSE ordersDb
                         /\ faultsLeft' = IF ok2 THEN Fault(ok1) ELSE Fault(ok1) - 1
                    /\ reply' = Reply("BuyNow", "ok")
       /\ allocated' = Append(allocated, new_order_number)
    /\ UNCHANGED << tickets, productsDb, discountsDb, referralsDb, usersDb, tasks,
                    addOk, consumed, promoOk, redeemed >>

(***************************************************************************)
(* Manual order: ManualOrderModal.on_submit                                *)
(***************************************************************************)
ManualItems(input_ids, all_products) ==
    [pid \in (input_ids \cap DOMAIN all_products) |->
        [name |-> all_products[pid].name, price |-> all_products[pid].price, quantity |-> 1]]

ManualOrder(target, input_ids, status) ==
    /\ NoneRunning
    /\ LET new_order_number == NextOrderNumber(LastOrderNumber(countersDb))
           order_items == ManualItems(input_ids, productsDb)
       IN IF DOMAIN order_items = {}
          THEN /\ reply' = Reply("ManualOrder", "no_valid_products")
               /\ UNCHANGED << countersDb, ordersDb, faultsLeft, allocated >>
          ELSE /\ new_order_number <= MaxOrders
               /\ \E ok1 \in SaveOutcomes :
                    /\ countersDb' = SaveCounter(ok1, new_order_number)
                    /\ \E ok2 \in (IF Fault(ok1) > 0 THEN {TRUE, FALSE} ELSE {TRUE}) :
                         /\ ordersDb' = IF ok2
                               THEN SaveOrders(ordersDb, Put(ordersDb, new_order_number,
                                      [user_id |-> target, items |-> order_items, status |-> status,
                                       discount |-> 0, discount_reason |-> NoReason,
                                       gift_recipient_id |-> None, channel_id |-> None]))
                               ELSE ordersDb
                         /\ faultsLeft' = IF ok2 THEN Fault(ok1) ELSE Fault(ok1) - 1
               /\ allocated' = Append(allocated, new_order_number)
               /\ reply' = Reply("ManualOrder", "ok")
    /\ UNCHANGED << tickets, productsDb, discountsDb, referralsDb, usersDb, tasks,
                    addOk, consumed, promoOk, redeemed >>

(***************************************************************************)
(* Payment confirmation by staff: OrderProcessing.confirm_payment          *)
(***************************************************************************)
ConfirmPayment(u, order_id) ==
    /\ NoneRunning
    /\ IF order_id \notin DOMAIN ordersDb
       THEN /\ reply' = Reply("ConfirmPayment", "not_found")
            /\ UNCHANGED << ordersDb, faultsLeft >>
       ELSE IF ordersDb[order_id].status \in {"Payment Received", "Delivered"}
       THEN /\ reply' = Reply("ConfirmPayment", "already")
            /\ UNCHANGED << ordersDb, faultsLeft >>
       ELSE /\ \E ok \in SaveOutcomes :
                 /\ ordersDb' = IF ok
                       THEN SaveOrders(ordersDb, [ordersDb EXCEPT ![order_id].status = "Payment Received"])
                       ELSE ordersDb
                 /\ faultsLeft' = Fault(ok)
            /\ reply' = Reply("ConfirmPayment", "ok")
    /\ UNCHANGED << tickets, productsDb, countersDb, discountsDb, referralsDb, usersDb, tasks,
                    allocated, addOk, consumed, promoOk, redeemed >>

(***************************************************************************)
(* Crypto payment verification: Verification.verify_payment.  The lookups  *)
(* of the transaction and of the rates use the blocking requests library,  *)
(* so the handler runs from the load of the orders to their save in one    *)
(* block; what the lookups return is drawn as tx.                          *)
(***************************************************************************)
VerifyPayment(u, order_id, tx) ==
    /\ NoneRunning
    /\ IF \/ order_id \notin DOMAIN ordersDb
          \/ ordersDb[order_id].user_id # u
          \/ ordersDb[order_id].status # "Pending Payment"
       THEN /\ reply' = Reply("VerifyPayment", "invalid_order")
            /\ UNCHANGED << ordersDb, faultsLeft >>
       ELSE IF tx # "paid"
       THEN /\ reply' = Reply("VerifyPayment", tx)
            /\ UNCHANGED << ordersDb, faultsLeft >>
       ELSE /\ \E ok \in SaveOutcomes :
                 /\ ordersDb' = IF ok
                       THEN SaveOrders(ordersDb, [ordersDb EXCEPT ![order_id].status = "Payment Received"])
                       ELSE ordersDb
                 /\ faultsLeft' = Fault(ok)
            /\ reply' = Reply("VerifyPayment", "ok")
    /\ UNCHANGED << tickets, productsDb, countersDb, discountsDb, referralsDb, usersDb, tasks,
                    allocated, addOk, consumed, promoOk, redeemed >>

(***************************************************************************)
(* Delivery: OrderProcessing.mark_delivered, two blocks                    *)
(*   DeliverStart   lines 136-171 (checks, stock, points)                  *)
(*   DeliverFinish  lines 288-290 (status and save of the orders loaded in *)
(*                  line 137)                                              *)
(***************************************************************************)
StockAfterDelivery(products_db, items) ==
    [pid \in DOMAIN products_db |->
        IF pid \in DOMAIN items /\ products_db[pid].stock # InfiniteStock
        THEN [products_db[pid] EXCEPT
                 !.stock = IF @ - items[pid].quantity < 0 THEN 0 ELSE @ - items[pid].quantity]
        ELSE products_db[pid]]

PointsAfterDelivery(users, u) ==
    IF u \in DOMAIN users THEN [users EXCEPT ![u] = @ + 1] ELSE Put(users, u, 1)

\* line 245: order.get('gift_recipient_id') or order['user_id']
DeliveryTarget(order) ==
    IF order.gift_recipient_id # None THEN order.gift_recipient_id ELSE order.user_id

\* line 259: the footer with the points, for an order that is no gift
PointsShown(order) == order.gift_recipient_id = None

DeliverStart(u, order_id) ==
    /\ NoneRunning
    /\ IF order_id \notin DOMAIN ordersDb
       THEN /\ reply' = Reply("MarkDelivered", "not_found")
            /\ UNCHANGED << productsDb, usersDb, tasks, faultsLeft >>
       ELSE IF ordersDb[order_id].status = "Delivered"
       THEN /\ reply' = Reply("MarkDelivered", "already_delivered")
            /\ UNCHANGED << productsDb, usersDb, tasks, faultsLeft >>
       ELSE IF ordersDb[order_id].status = "Pending Payment"
       THEN /\ reply' = Reply("MarkDelivered", "pending_payment")
            /\ UNCHANGED << productsDb, usersDb, tasks, faultsLeft >>
       ELSE /\ BagCardinality(tasks) < MaxTasks
            /\ \E ok1 \in SaveOutcomes :
                 /\ productsDb' = IF ok1 THEN StockAfterDelivery(productsDb, ordersDb[order_id].items)
                                  ELSE productsDb
                 /\ \E ok2 \in (IF Fault(ok1) > 0 THEN {TRUE, FALSE} ELSE {TRUE}) :
                      /\ usersDb' = IF ok2 THEN PointsAfterDelivery(usersDb, ordersDb[order_id].user_id)
                                    ELSE usersDb
                      /\ faultsLeft' = IF ok2 THEN Fault(ok1) ELSE Fault(ok1) - 1
            /\ tasks' = AddTask(Task("deliver", "finish", None, u, 0, order_id, ordersDb,
                                     [discount |-> 0, discount_reason |-> NoReason]))
            /\ reply' = Reply("MarkDelivered", "started")
    /\ UNCHANGED << tickets, ordersDb, countersDb, discountsDb, referralsDb,
                    allocated, addOk, consumed, promoOk, redeemed >>

DeliverFinish(t) ==
    /\ NoneRunning
    /\ t.kind = "deliver" /\ t.pc = "finish"
    /\ \E ok \in SaveOutcomes :
         /\ ordersDb' = IF ok
               THEN SaveOrders(ordersDb, [t.snap EXCEPT ![t.order_id].status = "Delivered"])
               ELSE ordersDb
         /\ faultsLeft' = Fault(ok)
    /\ tasks' = DelTask(t)
    /\ reply' = [op |-> "MarkDelivered", result |-> "ok",
                 dm_to |-> DeliveryTarget(t.snap[t.order_id]),
                 points_shown |-> PointsShown(t.snap[t.order_id])]
    /\ UNCHANGED << tickets, productsDb, countersDb, discountsDb, referralsDb, usersDb,
                    allocated, addOk, consumed, promoOk, redeemed >>

(***************************************************************************)
(* Promotional code creation: AdminTools.create_discount                   *)
(***************************************************************************)
CreateDiscount(code, discount_inr, max_uses) ==
    /\ NoneRunning
    /\ LET discounts == LoadDiscounts(discountsDb) IN
       IF discount_inr <= 0 \/ max_uses < 0
       THEN /\ reply' = Reply("CreateDiscount", "bad_input")
            /\ UNCHANGED << discountsDb, faultsLeft >>
       ELSE IF code \in DOMAIN discounts
       THEN /\ reply' = Reply("CreateDiscount", "exists")
            /\ UNCHANGED << discountsDb, faultsLeft >>
       ELSE /\ \E ok \in SaveOutcomes :
                 /\ discountsDb' = IF ok
                       THEN SaveDiscounts(discountsDb, Put(discounts, code,
                               [type |-> "promo", discount_inr |-> discount_inr,
                                max_uses |-> IF max_uses > 0 THEN max_uses ELSE Infinity,
                                uses |-> 0, expired |-> FALSE, is_active |-> TRUE,
                                used |-> FALSE, generated_by |-> None]))
                       ELSE discountsDb
                 /\ faultsLeft' = Fault(ok)
            /\ reply' = Reply("CreateDiscount", "ok")
    /\ UNCHANGED << tickets, productsDb, ordersDb, countersDb, referralsDb, usersDb, tasks,
                    allocated, addOk, consumed, promoOk, redeemed >>

(***************************************************************************)
(* Product edit by the owner: ProductModal.on_submit with the name and the  *)
(* price the modal shows as defaults                                        *)
(***************************************************************************)
EditProduct(product_id, stock_val) ==
    /\ NoneRunning
    /\ product_id \in DOMAIN productsDb
    /\ IF stock_val < InfiniteStock
       THEN /\ reply' = Reply("EditProduct", "bad_stock")
            /\ UNCHANGED << productsDb, faultsLeft >>
       ELSE /\ \E ok \in SaveOutcomes :
                 /\ productsDb' = IF ok THEN [productsDb EXCEPT ![product_id].stock = stock_val]
                                  ELSE productsDb
                 /\ faultsLeft' = Fault(ok)
            /\ reply' = Reply("EditProduct", "ok")
    /\ UNCHANGED << tickets, ordersDb, countersDb, discountsDb, referralsDb, usersDb, tasks,
                    allocated, addOk, consumed, promoOk, redeemed >>

\* ProductModal.on_submit with the stock the modal shows as default: the
\* owner gives the product a name and a price
EditPrice(product_id, name_val, price_val) ==
    /\ NoneRunning
    /\ product_id \in DOMAIN productsDb
    /\ IF price_val < 0
       THEN /\ reply' = Reply("EditPrice", "bad_price")
            /\ UNCHANGED << productsDb, faultsLeft >>
       ELSE /\ \E ok \in SaveOutcomes :
                 /\ productsDb' = IF ok THEN [productsDb EXCEPT ![product_id].name = name_val,
                                                               ![product_id].price = price_val]
                                  ELSE productsDb
                 /\ faultsLeft' = Fault(ok)
            /\ reply' = Reply("EditPrice", "ok")
    /\ UNCHANGED << tickets, ordersDb, countersDb, discountsDb, referralsDb, usersDb, tasks,
                    allocated, addOk, consumed, promoOk, redeemed >>

(***************************************************************************)
(* Ticket opening: TicketSystem.create_ticket_thread, two blocks            *)
(*   OpenTicketStart   lines 1182-1200 (the check for an Open ticket of    *)
(*                     the user; the thread of every entry with a creator  *)
(*                     exists, so the stale-entry branches are not taken)  *)
(*   OpenTicketFinish  lines 1217-1259 (after the await of create_thread:  *)
(*                     the entry of the new thread)                        *)
(* and ProductManagement.execute_quick_buy                                  *)
(***************************************************************************)
\* the ids a new thread can get: no entry and no thread under deletion has it
FreeChannels ==
    {ch \in Channels : /\ ch \notin DOMAIN tickets
                       /\ \A t \in BagToSet(tasks) : t.kind = "close" => t.ch # ch}

\* lines 1184-1185: state.get('creator_id') == user.id and status == 'Open'
HasOpenTicket(active_tickets, u) ==
    \E ch \in DOMAIN active_tickets :
       active_tickets[ch].creator_id = u /\ active_tickets[ch].status = "Open"

OpenTicketStart(u) ==
    /\ NoneRunning
    /\ IF HasOpenTicket(tickets, u)
       THEN /\ reply' = Reply("OpenTicket", "already_open")
            /\ UNCHANGED tasks
       ELSE /\ BagCardinality(tasks) < MaxTasks
            /\ BagCardinality(tasks) < Cardinality(FreeChannels)
            /\ tasks' = AddTask(Task("open", "register", None, u, 0, NoOrder, << >>,
                                     [discount |-> 0, discount_reason |-> NoReason]))
            /\ reply' = Reply("OpenTicket", "creating")
    /\ UNCHANGED << tickets, productsDb, ordersDb, countersDb, discountsDb, referralsDb,
                    usersDb, faultsLeft, allocated, addOk, consumed, promoOk, redeemed >>

OpenTicketFinish(t) ==
    /\ NoneRunning
    /\ t.kind = "open" /\ t.pc = "register"
    /\ \E ch \in FreeChannels :
         tickets' = Put(tickets, ch, NewTicket(t.user))
    /\ tasks' = DelTask(t)
    /\ reply' = Reply("OpenTicket", "opened")
    /\ UNCHANGED << productsDb, ordersDb, countersDb, discountsDb, referralsDb,
                    usersDb, faultsLeft, allocated, addOk, consumed, promoOk, redeemed >>

\* execute_quick_buy, lines 323-396: the handler never looks at the registry
\* before it writes the entry of its new thread
QuickBuy(u, product_id) ==
    /\ NoneRunning
    /\ IF product_id \notin DOMAIN productsDb
       THEN /\ reply' = Reply("QuickBuy", "not_found")
            /\ UNCHANGED tickets
       ELSE IF productsDb[product_id].stock = 0
       THEN /\ reply' = Reply("QuickBuy", "out_of_stock")
            /\ UNCHANGED tickets
       ELSE /\ \E ch \in FreeChannels :
                 /\ BagCardinality(tasks) < Cardinality(FreeChannels)
                 /\ tickets' = Put(tickets, ch,
                        [NewTicket(u) EXCEPT
                            !.cart = AddToCart(<< >>, product_id, productsDb[product_id])])
            /\ reply' = Reply("QuickBuy", "ok")
    /\ UNCHANGED << productsDb, ordersDb, countersDb, discountsDb, referralsDb, usersDb, tasks,
                    faultsLeft, allocated, addOk, consumed, promoOk, redeemed >>

(***************************************************************************)
(* Gift designation: TicketSystem.gift                                      *)
(***************************************************************************)
\* the command without the check of line 1355
NobodyIsBot(recipient) == FALSE

\* recipient.bot: the one bot account of the guild
IsBot(recipient) == recipient = "777"

Gift(ch, u, recipient) ==
    /\ NoneRunning
    /\ IF ch \notin DOMAIN tickets
       THEN /\ reply' = Reply("Gift", "no_ticket")
            /\ UNCHANGED tickets
       ELSE IF tickets[ch].category # "BUY"
       THEN /\ reply' = Reply("Gift", "not_buy_ticket")
            /\ UNCHANGED tickets
       ELSE IF IsBot(recipient)
       THEN /\ reply' = Reply("Gift", "bot_recipient")
            /\ UNCHANGED tickets
       ELSE IF recipient = u
       THEN /\ reply' = Reply("Gift", "self_gift")
            /\ UNCHANGED tickets
       ELSE /\ tickets' = [tickets EXCEPT ![ch].gift_recipient_id = recipient]
            /\ reply' = Reply("Gift", "ok")
    /\ UNCHANGED << productsDb, ordersDb, countersDb, discountsDb, referralsDb, usersDb, tasks,
                    faultsLeft, allocated, addOk, consumed, promoOk, redeemed >>

(***************************************************************************)
(* Claim of a ticket by staff: StaffTicketView.ClaimButton.callback, pressed *)
(* on the staff controls message of a ticket's thread                        *)
(***************************************************************************)
\* the callback without the check of line 970
ClaimedNeverChecked(ticket_state) == FALSE

\* ticket_state.get('claimed_by')
AlreadyClaimed(ticket_state) == ticket_state.claimed_by # None

\* The button exists in the thread of a ticket: the channel has an entry in
\* active_tickets or is being closed.  In the second case line 968 reads {}
\* and line 984 stores an entry that holds claimed_by alone; the keys it
\* lacks read as the defaults of the .get calls of the other handlers.
Claim(ch, u) ==
    /\ NoneRunning
    /\ \/ ch \in DOMAIN tickets
       \/ \E t \in BagToSet(tasks) : t.kind = "close" /\ t.ch = ch
    /\ IF ch \in DOMAIN tickets /\ AlreadyClaimed(tickets[ch])
       THEN /\ reply' = Reply("Claim", "already_claimed")
            /\ UNCHANGED tickets
       ELSE /\ tickets' = IF ch \in DOMAIN tickets
                          THEN [tickets EXCEPT ![ch].claimed_by = u]
                          ELSE Put(tickets, ch, [NewTicket(None) EXCEPT
                                   !.category = None, !.status = None, !.claimed_by = u])
            /\ reply' = Reply("Claim", "ok")
    /\ UNCHANGED << productsDb, ordersDb, countersDb, discountsDb, referralsDb, usersDb, tasks,
                    faultsLeft, allocated, addOk, consumed, promoOk, redeemed >>

(***************************************************************************)
(* Release of a claimed ticket: StaffClaimedView.UnclaimButton.callback.   *)
(* Like the claim it reads and writes the ticket state in one block after  *)
(* its deferral.                                                           *)
(***************************************************************************)
\* the callback without the check of line 1135
UnclaimNeverRefused(ticket_state, u) == FALSE

\* line 1135: claimed by someone else and the actor is no owner
UnclaimRefused(ticket_state, u) ==
    /\ ticket_state.claimed_by # None
    /\ ticket_state.claimed_by # u
    /\ u \notin OwnerIds

Unclaim(ch, u) ==
    /\ NoneRunning
    /\ ch \in DOMAIN tickets
    /\ IF UnclaimRefused(tickets[ch], u)
       THEN /\ reply' = Reply("Unclaim", "not_claimant")
            /\ UNCHANGED tickets
       ELSE /\ tickets' = [tickets EXCEPT ![ch].claimed_by = None]
            /\ reply' = Reply("Unclaim", "ok")
    /\ UNCHANGED << productsDb, ordersDb, countersDb, discountsDb, referralsDb, usersDb, tasks,
                    faultsLeft, allocated, addOk, consumed, promoOk, redeemed >>

(***************************************************************************)
(* Close of a ticket: close_ticket_action, two blocks                      *)
(*   Close        lines 68-193: transcript (sent or failed), then the pop  *)
(*                of the entry in the finally branch                       *)
(*   CloseFinish  lines 197-209: after the sleep of 3 seconds the channel  *)
(*                is deleted and the handler returns                       *)
(* What runs during the transcript awaits runs on the entry still present  *)
(* and is the same as running before Close.                                *)
(***************************************************************************)
\* A ticket is closed once: an entry without creator is one that a handler
\* stored again after the pop, on a channel that is deleted or about to be.
Close(ch, u, transcript_file_sent) ==
    /\ NoneRunning
    /\ ch \in DOMAIN tickets
    /\ tickets[ch].creator_id # None
    /\ BagCardinality(tasks) < MaxTasks
    /\ tickets' = [c \in DOMAIN tickets \ {ch} |-> tickets[c]]
    /\ tasks' = AddTask(Task("close", "delete", ch, u, 0, NoOrder, transcript_file_sent,
                             [discount |-> 0, discount_reason |-> NoReason]))
    /\ reply' = Reply("Close", "closing")
    /\ UNCHANGED << productsDb, ordersDb, countersDb, discountsDb, referralsDb, usersDb,
                    faultsLeft, allocated, addOk, consumed, promoOk, redeemed >>

CloseFinish(t) ==
    /\ NoneRunning
    /\ t.kind = "close" /\ t.pc = "delete"
    /\ tasks' = DelTask(t)
    /\ reply' = Reply("Close", IF t.snap THEN "closed" ELSE "closed_transcript_failed")
    /\ UNCHANGED << tickets, productsDb, ordersDb, countersDb, discountsDb, referralsDb,
                    usersDb, faultsLeft, allocated, addOk, consumed, promoOk, redeemed >>

(***************************************************************************)
(* Initial states                                                          *)
(***************************************************************************)
\* the ticket of create_ticket_thread after one AddItem of product A
FilledTicket(u) ==
    [NewTicket(u) EXCEPT !.cart = AddToCart(<< >>, "A", InitProducts["A"])]

InitFrom(ticket_of, faults, discounts) ==
    /\ tickets = ticket_of
    /\ productsDb = InitProducts
    /\ ordersDb = << >>
    /\ countersDb = << >>
    /\ discountsDb = discounts
    /\ referralsDb = [c \in {"REF-900"} |-> "900"]
    /\ usersDb = << >>
    /\ tasks = EmptyBag
    /\ faultsLeft = faults
    /\ reply = Reply("none", "none")
    /\ allocated = << >>
    /\ addOk = [ch \in Channels |-> [p \in Products |-> IF ch \in DOMAIN ticket_of THEN CartQty(ticket_of[ch].cart, p) ELSE 0]]
    /\ consumed = [ch \in Channels |-> {}]
    /\ promoOk = [c \in Codes |-> 0]
    /\ redeemed = {}

InitWith(ticket_of, faults) == InitFrom(ticket_of, faults, InitDiscounts)

\* every ticket as create_ticket_thread leaves it
OpenTickets == [ch \in Channels |-> NewTicket(CreatorOf(ch))]

\* the first ticket holds one unit of product A, the other ones are new
OneCart == [ch \in Channels |-> IF ch = "c1" THEN FilledTicket(CreatorOf(ch))
                                ELSE NewTicket(CreatorOf(ch))]

\* one open ticket, the other channel holds none
OneTicket == [ch \in {"c1"} |-> NewTicket(CreatorOf(ch))]

\* one ticket that holds one unit of product A, the other channel holds none
OneFilledTicket == [ch \in {"c1"} |-> FilledTicket(CreatorOf(ch))]

\* one ticket of the user who holds the discount roles, with one unit of
\* product B in its cart
TierTicket ==
    [ch \in {"c2"} |-> [NewTicket(CreatorOf(ch)) EXCEPT
                            !.cart = AddToCart(<< >>, "B", InitProducts["B"])]]

Init == InitWith(OpenTickets, 0)
InitTierTicket == InitWith(TierTicket, 0)

\* a purchase ticket with one unit of product A and a support ticket
StaffTickets ==
    [ch \in Channels |-> IF ch = "c1" THEN FilledTicket(CreatorOf(ch))
                         ELSE [NewTicket(CreatorOf(ch)) EXCEPT !.category = "SUPPORT"]]
InitStaffTickets == InitWith(StaffTickets, 0)
InitOneTicket == InitWith(OneTicket, 0)
\* the registry of a bot that has just started
InitNoTicket == InitWith(<< >>, 0)
InitOneCart == InitWith(OneCart, 0)
InitOneCartFaulty == InitWith(OneCart, MaxFaults)
InitOneFilledTicket == InitWith(OneFilledTicket, 0)
InitRewardCode == InitFrom(OneCart, 0, RewardDiscounts)

(***************************************************************************)
(* Next-state relations                                                    *)
(***************************************************************************)
DoAddItem == \E ch \in Channels, pid \in Products \cup {"Z"} : AddItem(ch, pid)
DoApplyCode == \E ch \in Channels, code \in Codes : \E u \in Participants(ch) : ApplyCode(ch, u, code)
\* the creator of the ticket submits the redeem code or a code nobody issued
DoApplyOwnCode ==
    \E ch \in Channels, code \in {"REDEEM-A", "BOGUS"} : ApplyCode(ch, CreatorOf(ch), code)
DoCancel == \E ch \in Channels : \E u \in Participants(ch) : Cancel(ch, u)
DoCancelByGuest == \E ch \in Channels : \E u \in Guests(ch) : Cancel(ch, u)
DoConfirmStart == \E ch \in Channels : \E u \in Participants(ch) : ConfirmStart(ch, u)
DoConfirmStartByCreator == \E ch \in Channels : ConfirmStart(ch, CreatorOf(ch))
DoConfirmAlloc == \E t \in BagToSet(tasks) : ConfirmAlloc(t)
DoConfirmSave == \E t \in BagToSet(tasks) : ConfirmSave(t)
DoConfirmAbort == \E t \in BagToSet(tasks) : ConfirmAbort(t)
DoConfirmPaymentFails == \E t \in BagToSet(tasks) : ConfirmPaymentFails(t)
DoBuyNow == \E u \in Users : BuyNow(u, "B", 15)
DoManualOrder == \E target \in {"101"}, input_ids \in {{"A"}, {"Z"}}, status \in {"Delivered"} :
                    ManualOrder(target, input_ids, status)
DoConfirmPayment == \E u \in StaffIds, order_id \in 1..MaxOrders : ConfirmPayment(u, order_id)
DoVerifyPayment == \E u \in Users, order_id \in 1..MaxOrders, tx \in {"amount_mismatch", "paid"} :
                      VerifyPayment(u, order_id, tx)
DoDeliverStart == \E u \in StaffIds, order_id \in 1..MaxOrders : DeliverStart(u, order_id)
DoDeliverFinish == \E t \in BagToSet(tasks) : DeliverFinish(t)
DoCreateDiscount == \E max_uses \in {MaxUsesN} : CreateDiscount("SAVE5", 5, max_uses)

\* a promotional code for one use
DoCreateSingleUse == CreateDiscount("SAVE5", 5, 1)

DoGift == \E ch \in Channels, recipient \in {"101", "102"} : Gift(ch, CreatorOf(ch), recipient)
DoClaim == \E ch \in Channels, u \in StaffIds : Claim(ch, u)
\* the buttons of the staff controls message answer every member of the
\* thread; /gift answers in every channel, "c3" is one without a ticket
DoClaimByAnyone == \E ch \in Channels, u \in Users \cup OwnerIds : Claim(ch, u)
DoUnclaim == \E ch \in Channels, u \in Users \cup OwnerIds : Unclaim(ch, u)
DoGiftByAnyone ==
    \E ch \in Channels \cup {"c3"}, u \in Users, recipient \in {"101", "102", "777"} :
        Gift(ch, u, recipient)
DoClose == \E ch \in Channels, u \in Users, sent \in BOOLEAN : Close(ch, u, sent)
DoCloseFinish == \E t \in BagToSet(tasks) : CloseFinish(t)
DoOpenTicket == \E u \in Users : OpenTicketStart(u)
DoOpenTicketFinish == \E t \in BagToSet(tasks) : OpenTicketFinish(t)
DoQuickBuy == \E u \in Users, product_id \in Products \cup {"Z"} : QuickBuy(u, product_id)
DoEditProduct == \E stock_val \in {-2, 1, 2} : EditProduct("A", stock_val)
DoEditPrice ==
    \E product_id \in Products, name_val \in {"Alpha", "Alpha Plus"}, price_val \in {-1, 10, 15} :
        EditPrice(product_id, name_val, price_val)

Next ==
    \/ DoAddItem \/ DoApplyCode \/ DoCancel
    \/ DoConfirmStart \/ DoConfirmAlloc \/ DoConfirmSave
    \/ DoBuyNow \/ DoManualOrder \/ DoConfirmPayment
    \/ DoDeliverStart \/ DoDeliverFinish \/ DoCreateDiscount
    \/ DoEditProduct \/ DoCancelByGuest \/ DoVerifyPayment \/ DoGift \/ DoClaim
    \/ DoConfirmAbort \/ DoConfirmPaymentFails
    \/ DoClaimByAnyone \/ DoUnclaim \/ DoGiftByAnyone \/ DoApplyOwnCode
    \/ DoClose \/ DoCloseFinish \/ DoEditPrice \/ DoCreateSingleUse
    \/ DoOpenTicket \/ DoOpenTicketFinish \/ DoQuickBuy

\* the handlers of the cart: the stock they read stays as it is
NextCart ==
    \/ DoAddItem \/ DoCancel
    \/ DoConfirmStart \/ DoConfirmAlloc \/ DoConfirmSave

\* the handlers of the discount registry and of the ticket's discount
NextCodes ==
    \/ DoApplyCode \/ DoCancel \/ DoCreateDiscount
    \/ DoConfirmStartByCreator \/ DoConfirmAlloc \/ DoConfirmSave

\* the handlers that draw an order number from the counter
NextIds ==
    \/ DoCancel
    \/ DoConfirmStart \/ DoConfirmAlloc \/ DoConfirmSave
    \/ DoBuyNow \/ DoManualOrder

\* the handlers of the referral codes and the ones that put orders in the ledger
NextReferral ==
    \/ DoApplyCode \/ DoCancel \/ DoManualOrder
    \/ DoConfirmStartByCreator \/ DoConfirmAlloc \/ DoConfirmSave

\* the handlers of the cart and the edit of the stock they read
NextStock ==
    \/ DoAddItem \/ DoCancel \/ DoEditProduct
    \/ DoConfirmStart \/ DoConfirmAlloc \/ DoConfirmSave

\* the handlers that change the status of an order
NextOrders ==
    \/ DoCancel \/ DoCancelByGuest
    \/ DoConfirmStartByCreator \/ DoConfirmAlloc \/ DoConfirmSave
    \/ DoConfirmPayment \/ DoVerifyPayment
    \/ DoDeliverStart \/ DoDeliverFinish

\* the handlers that write the fields of the ticket state a Cancel clears
NextGift ==
    \/ DoGift \/ DoClaim \/ DoApplyCode \/ DoCancel
    \/ DoConfirmStartByCreator \/ DoConfirmAlloc \/ DoConfirmSave

\* Confirm with its failures and the handlers of the cart that run while it
\* is suspended
NextConfirm ==
    \/ DoAddItem \/ DoCancel
    \/ DoConfirmStart \/ DoConfirmAlloc \/ DoConfirmSave
    \/ DoConfirmAbort \/ DoConfirmPaymentFails

\* the staff controls and the gift command
NextStaff == DoClaimByAnyone \/ DoUnclaim \/ DoGiftByAnyone

\* the handlers of the cart and the claim of the ticket by staff
NextClaimed ==
    \/ DoAddItem \/ DoApplyOwnCode \/ DoCancel
    \/ DoConfirmStartByCreator \/ DoConfirmAlloc \/ DoConfirmSave
    \/ DoClaim \/ DoUnclaim

\* the way of an order of a ticket to its delivery, and the gift command
NextDelivery ==
    \/ DoGift \/ DoConfirmStartByCreator \/ DoConfirmAlloc \/ DoConfirmSave
    \/ DoConfirmPayment \/ DoDeliverStart \/ DoDeliverFinish

\* the two handlers that fill the ticket state, with the handlers that bring
\* a ticket and a code into the states they refuse
NextRejects == DoAddItem \/ DoApplyCode \/ DoCreateSingleUse

\* the two ways to open a ticket, and Close
NextOpen ==
    \/ DoOpenTicket \/ DoOpenTicketFinish \/ DoQuickBuy
    \/ DoClose \/ DoCloseFinish

\* AddItem and the edit of the name and the price it captures
NextPrices == DoAddItem \/ DoEditPrice

\* Close and the handlers that run on the ticket while it closes
NextClose ==
    \/ DoClose \/ DoCloseFinish
    \/ DoAddItem \/ DoApplyOwnCode \/ DoClaim \/ DoUnclaim \/ DoGift

Spec == Init /\ [][Next]_vars
SpecCart == InitOneTicket /\ [][NextCart]_vars
SpecCodes == InitOneCart /\ [][NextCodes]_vars
SpecIds == InitOneCart /\ [][NextIds]_vars
SpecIdsFail == InitOneCartFaulty /\ [][NextIds]_vars
SpecRewards == InitRewardCode /\ [][NextCodes]_vars
SpecReferral == InitOneCart /\ [][NextReferral]_vars
SpecStock == InitOneTicket /\ [][NextStock]_vars
SpecOrders == InitOneCart /\ [][NextOrders]_vars
SpecGift == InitOneFilledTicket /\ [][NextGift]_vars
SpecConfirm == InitTierTicket /\ [][NextConfirm]_vars
SpecStaff == InitStaffTickets /\ [][NextStaff]_vars
SpecClaimed == InitOneFilledTicket /\ [][NextClaimed]_vars
SpecDelivery == InitOneFilledTicket /\ [][NextDelivery]_vars
SpecClose == InitOneFilledTicket /\ [][NextClose]_vars
SpecPrices == InitOneTicket /\ [][NextPrices]_vars
SpecOversell == InitOneCart /\ [][NextCart]_vars
SpecOpen == InitNoTicket /\ [][NextOpen]_vars
SpecRejects == Init /\ [][NextRejects]_vars

(***************************************************************************)
(* Properties                                                              *)
(***************************************************************************)
LiveStatuses == {"Pending Payment", "Payment Received", "Delivered"}

\* C1: in every reachable state a ticket's order_id is set if and only if
\* the order ledger holds an order with that id, recorded for the ticket's
\* channel, in status Pending Payment, Payment Received or Delivered
C1_OrderIdIffLedgerOrder ==
    \A ch \in DOMAIN tickets :
        /\ tickets[ch].order_id # NoOrder =>
              /\ tickets[ch].order_id \in DOMAIN ordersDb
              /\ ordersDb[tickets[ch].order_id].channel_id = ch
              /\ ordersDb[tickets[ch].order_id].status \in LiveStatuses
        /\ tickets[ch].order_id = NoOrder =>
              ~ \E o \in DOMAIN ordersDb :
                    ordersDb[o].channel_id = ch /\ ordersDb[o].status \in LiveStatuses

\* C2: an AddItem on a ticket whose order_id is set is rejected and leaves
\* the cart as it was
C2_AddItemRejectedWhileOrdered ==
    [][\A ch \in Channels, pid \in Products \cup {"Z"} :
          (ch \in DOMAIN tickets /\ tickets[ch].order_id # NoOrder /\ AddItem(ch, pid))
          => (reply'.result # "ok" /\ tickets'[ch].cart = tickets[ch].cart)]_vars

\* C3: between a successful Confirm and the next successful Cancel every
\* ApplyCode on the ticket is rejected and changes neither the ticket's
\* discount, discount_reason and referral_info nor the discount registry
C3_ApplyCodeRejectedWhileOrdered ==
    [][\A ch \in Channels, code \in Codes : \A u \in Participants(ch) :
          (ch \in DOMAIN tickets /\ tickets[ch].order_id # NoOrder /\ ApplyCode(ch, u, code))
          => /\ reply'.result # "ok"
             /\ tickets'[ch].discount = tickets[ch].discount
             /\ tickets'[ch].discount_reason = tickets[ch].discount_reason
             /\ tickets'[ch].referral_info = tickets[ch].referral_info
             /\ discountsDb' = discountsDb]_vars

\* C4: every order number handed out by Confirm, by the flash-sale purchase
\* or by the manual order is greater than every number handed out before
\* it, whatever the interleaving of the handlers
C4_OrderNumbersIncrease ==
    \A i, j \in 1..Len(allocated) : i < j => allocated[i] < allocated[j]

\* C4 witness: a Confirm that was suspended while another handler drew a
\* number has drawn the next one for its ticket
C4_Witness ==
    /\ Len(allocated) >= 2
    /\ \E ch \in DOMAIN tickets : tickets[ch].order_id = allocated[Len(allocated)]
    /\ \E o \in DOMAIN ordersDb : ordersDb[o].channel_id = None /\ o = allocated[1]

\* C5: the save of a Confirm leaves every order that the ledger already
\* holds as it is, also after a save of the counter has failed
C5_ConfirmOverwritesNoOrder ==
    [][\A t \in BagToSet(tasks) :
          ConfirmSave(t) => \A o \in DOMAIN ordersDb :
                               o \in DOMAIN ordersDb' /\ ordersDb'[o] = ordersDb[o]]_vars

C7_SecondCodeFails ==
    [][\A ch \in Channels, code \in Codes : \A u \in Participants(ch) :
          (ch \in DOMAIN tickets /\ tickets[ch].discount > 0 /\ ApplyCode(ch, u, code))
          => /\ reply'.result = "already_applied"
             /\ tickets'[ch].discount = tickets[ch].discount
             /\ tickets'[ch].discount_reason = tickets[ch].discount_reason
             /\ discountsDb' = discountsDb]_vars

\* C7 witness: a ticket carries the discount of a code and the last
\* ApplyCode was refused because of it
C7_Witness ==
    /\ reply = Reply("ApplyCode", "already_applied")
    /\ \E ch \in DOMAIN tickets :
          tickets[ch].discount > 0 /\ tickets[ch].discount_reason.kind = "code"

\* C8: of the ApplyCode submissions on one ticket at most one consumes a
\* code of the registry, and the consumed code is the one whose amount and
\* reason are the ticket's discount and discount_reason
C8_AtMostOneCodeConsumed ==
    \A ch \in DOMAIN tickets :
        /\ Cardinality(consumed[ch]) <= 1
        /\ \A code \in consumed[ch] :
              /\ code \in DOMAIN discountsDb
              /\ tickets[ch].discount = discountsDb[code].discount_inr
              /\ tickets[ch].discount_reason = CodeReason(code)

\* C8 witness: a ticket has consumed the promotional code, the redeem code
\* is still there, and a second submission on it has been refused
C8_Witness ==
    /\ consumed["c1"] = {"SAVE5"}
    /\ discountsDb["SAVE5"].uses = 1
    /\ "REDEEM-A" \notin redeemed
    /\ reply.result = "already_applied"

\* C9: for a promotional code with finite max_uses N the successful
\* applications never exceed N, the persisted usage counter equals their
\* number, and every attempt made once N have succeeded is rejected
C9_PromoUsesBounded ==
    /\ [](\A code \in DOMAIN discountsDb :
            (discountsDb[code].type = "promo" /\ discountsDb[code].max_uses > 0)
            => /\ promoOk[code] <= discountsDb[code].max_uses
               /\ discountsDb[code].uses = promoOk[code])
    /\ [][\A ch \in Channels, code \in Codes : \A u \in Participants(ch) :
            (/\ code \in DOMAIN discountsDb
             /\ discountsDb[code].type = "promo"
             /\ discountsDb[code].max_uses > 0
             /\ promoOk[code] >= discountsDb[code].max_uses
             /\ ApplyCode(ch, u, code))
            => (reply'.result # "ok" /\ tickets' = tickets /\ discountsDb' = discountsDb)]_vars

\* C9 witness: the promotional code has been applied max_uses times, on two
\* tickets, and a further attempt on a ticket without discount was refused
\* for it
C9_Witness ==
    /\ "SAVE5" \in DOMAIN discountsDb
    /\ promoOk["SAVE5"] = MaxUsesN
    /\ discountsDb["SAVE5"].uses = MaxUsesN
    /\ "SAVE5" \in consumed["c2"]
    /\ reply = Reply("ApplyCode", "max_uses")

\* C10: once an ApplyCode has succeeded with a redeem code, no later
\* ApplyCode with that code is accepted, on any ticket, until a Cancel gives
\* the code back
C10_RedeemCodeUsedOnce ==
    [][\A ch \in Channels, code \in Codes : \A u \in Participants(ch) :
          (code \in redeemed /\ ApplyCode(ch, u, code)) => reply'.result # "ok"]_vars

\* C11: an ApplyCode with an unused redeem code, on a ticket without
\* discount, is refused for the identity exactly when the code is bound to
\* an identity other than the actor; a code bound to the actor and a code
\* bound to nobody (a referrer reward code read back from the gateway) are
\* accepted
C11_RedeemIdentityCheck ==
    [][\A ch \in Channels, code \in Codes : \A u \in Participants(ch) :
          (/\ ch \in DOMAIN tickets
           /\ tickets[ch].discount = 0
           /\ code \in DOMAIN discountsDb
           /\ discountsDb[code].type = "redeem"
           /\ code \notin redeemed
           /\ ApplyCode(ch, u, code))
          => IF discountsDb[code].generated_by # None /\ discountsDb[code].generated_by # u
             THEN reply'.result = "not_yours"
             ELSE reply'.result = "ok"]_vars

\* C12: an ApplyCode with a referral code fails and leaves the ticket state
\* as it was whenever the code is unknown, the actor is the referrer of the
\* code, or the ledger holds a Delivered order of the actor, whatever the
\* cart holds
C12_ReferralRefused ==
    [][\A ch \in Channels, code \in Codes : \A u \in Participants(ch) :
          (/\ ch \in DOMAIN tickets
           /\ StartsWithRef(code)
           /\ \/ code \notin DOMAIN referralsDb
              \/ referralsDb[code] = u
              \/ \E o \in DOMAIN ordersDb :
                    ordersDb[o].user_id = u /\ ordersDb[o].status = "Delivered"
           /\ ApplyCode(ch, u, code))
          => (reply'.result # "ok" /\ tickets' = tickets)]_vars

\* C12 witness: the creator of a ticket with a filled cart and no discount
\* has a Delivered order, and the referral code was refused for it
C12_Witness ==
    /\ reply = Reply("ApplyCode", "not_new_customer")
    /\ \E o \in DOMAIN ordersDb :
          ordersDb[o].user_id = "101" /\ ordersDb[o].status = "Delivered"
    /\ tickets["c1"].discount = 0
    /\ DOMAIN tickets["c1"].cart # {}

\* C13: the order that Confirm writes for a ticket whose discount came from
\* a referral code carries the code and the referrer id of the ticket's
\* referral_info
C13_OrderCarriesReferral ==
    [][\A t \in BagToSet(tasks) :
          (/\ ConfirmSave(t)
           /\ t.ch \in DOMAIN tickets
           /\ tickets[t.ch].discount_reason.kind = "referral"
           /\ t.order_id \in DOMAIN ordersDb')
          => /\ ordersDb'[t.order_id].referral_code_used = tickets[t.ch].referral_info.code
             /\ ordersDb'[t.order_id].referrer_discord_id
                   = tickets[t.ch].referral_info.referrer_id]_vars

\* C14: in every reachable state a ticket holds a referral_info only while
\* its discount is greater than zero and was set by a referral code
C14_ReferralInfoOnlyWithReferral ==
    \A ch \in DOMAIN tickets :
        tickets[ch].referral_info # NoReferral
        => (tickets[ch].discount > 0 /\ tickets[ch].discount_reason.kind = "referral")

\* C15: a Confirm on a ticket with an empty cart fails: it writes no order,
\* leaves order_id and the order counter as they were and starts no
\* allocation; no order of the ledger is an order without items
C15_EmptyCartNotConfirmed ==
    /\ [](\A o \in DOMAIN ordersDb : DOMAIN ordersDb[o].items # {})
    /\ [][\A ch \in Channels : \A u \in Participants(ch) :
            (ch \in DOMAIN tickets /\ DOMAIN tickets[ch].cart = {} /\ ConfirmStart(ch, u))
            => /\ reply'.result = "empty_cart"
               /\ tickets' = tickets
               /\ ordersDb' = ordersDb
               /\ countersDb' = countersDb
               /\ allocated' = allocated
               /\ tasks' = tasks]_vars

\* C15 witness: the Confirm on the new ticket was refused for the empty
\* cart, no order number has been handed out
C15_Witness ==
    /\ reply = Reply("Confirm", "empty_cart")
    /\ "c1" \in DOMAIN tickets
    /\ DOMAIN tickets["c1"].cart = {}
    /\ tickets["c1"].order_id = NoOrder
    /\ allocated = << >>
    /\ LastOrderNumber(countersDb) = 0

C17_CancelOnlyPendingPayment ==
    [][\A ch \in Channels : \A u \in Participants(ch) :
          (ch \in DOMAIN tickets /\ Cancel(ch, u))
          => IF /\ tickets[ch].order_id # NoOrder
                /\ tickets[ch].order_id \in DOMAIN ordersDb
                /\ ordersDb[tickets[ch].order_id].status = "Pending Payment"
             THEN /\ reply'.result = "ok"
                  /\ ordersDb'[tickets[ch].order_id].status = "Cancelled by User"
                  /\ tickets'[ch].order_id = NoOrder
             ELSE /\ reply'.result # "ok"
                  /\ ordersDb' = ordersDb
                  /\ tickets' = tickets]_vars

\* C17 witness: one order of the ticket was cancelled, the next one is paid
\* and the Cancel on it was refused
C17_Witness ==
    /\ reply = Reply("Cancel", "cannot_cancel")
    /\ tickets["c1"].order_id \in DOMAIN ordersDb
    /\ ordersDb[tickets["c1"].order_id].status = "Payment Received"
    /\ \E o \in DOMAIN ordersDb : ordersDb[o].status = "Cancelled by User"

\* C18: the status of an order changes only from Pending Payment to Payment
\* Received, from Payment Received to Delivered and from Pending Payment to
\* Cancelled by User; a cancelled order keeps its status
C18_StatusTransitions ==
    [][\A o \in (DOMAIN ordersDb) \cap (DOMAIN ordersDb') :
          ordersDb'[o].status # ordersDb[o].status
          => << ordersDb[o].status, ordersDb'[o].status >> \in
                {<< "Pending Payment", "Payment Received" >>,
                 << "Payment Received", "Delivered" >>,
                 << "Pending Payment", "Cancelled by User" >>}]_vars

\* C19: a Cancel by a member of the thread who is neither the creator of the
\* ticket nor staff leaves the ledger and the ticket state as they were
C19_CancelOnlyByOwnerOrStaff ==
    [][\A ch \in Channels : \A u \in Guests(ch) :
          (ch \in DOMAIN tickets /\ Cancel(ch, u))
          => (ordersDb' = ordersDb /\ tickets' = tickets)]_vars

\* C20: a successful Cancel clears order_id, discount, discount_reason and
\* gift_recipient_id of the ticket and leaves its cart, creator_id, category
\* and claimed_by as they were
C20_CancelFrame ==
    [][\A ch \in Channels : \A u \in Participants(ch) :
          (/\ ch \in DOMAIN tickets
           /\ tickets[ch].order_id \in DOMAIN ordersDb
           /\ ordersDb[tickets[ch].order_id].status = "Pending Payment"
           /\ Cancel(ch, u))
          => /\ tickets'[ch].order_id = NoOrder
             /\ tickets'[ch].discount = 0
             /\ tickets'[ch].discount_reason = NoReason
             /\ tickets'[ch].gift_recipient_id = None
             /\ tickets'[ch].cart = tickets[ch].cart
             /\ tickets'[ch].creator_id = tickets[ch].creator_id
             /\ tickets'[ch].category = tickets[ch].category
             /\ tickets'[ch].claimed_by = tickets[ch].claimed_by]_vars

\* C20 witness: the order of a ticket that carried a discount and a gift
\* recipient is cancelled, the ticket has neither any more and still holds
\* its cart
C20_Witness ==
    /\ reply = Reply("Cancel", "ok")
    /\ tickets["c1"].order_id = NoOrder
    /\ tickets["c1"].discount = 0
    /\ tickets["c1"].gift_recipient_id = None
    /\ CartQty(tickets["c1"].cart, "A") = 1
    /\ tickets["c1"].claimed_by = "900"
    /\ \E o \in DOMAIN ordersDb :
          /\ ordersDb[o].channel_id = "c1"
          /\ ordersDb[o].status = "Cancelled by User"
          /\ ordersDb[o].discount > 0
          /\ ordersDb[o].gift_recipient_id # None

C22_ConfirmCancelConfirm ==
    [][\A t \in BagToSet(tasks) :
          ConfirmSave(t)
          => \A o1 \in DOMAIN ordersDb :
                (ordersDb[o1].channel_id = t.ch /\ ordersDb[o1].status = "Cancelled by User")
                => /\ t.order_id > o1
                   /\ t.order_id \in DOMAIN ordersDb'
                   /\ ordersDb'[t.order_id].items = ordersDb[o1].items
                   /\ ordersDb'[t.order_id].status = "Pending Payment"
                   /\ ordersDb'[o1].status = "Cancelled by User"]_vars

\* C22 witness: the ticket's first order is cancelled and its second order,
\* with the same items, is pending
C22_Witness ==
    /\ reply = Reply("Confirm", "confirmed")
    /\ DOMAIN ordersDb = {1, 2}
    /\ ordersDb[1].channel_id = "c1" /\ ordersDb[1].status = "Cancelled by User"
    /\ ordersDb[2].channel_id = "c1" /\ ordersDb[2].status = "Pending Payment"
    /\ ordersDb[2].items = ordersDb[1].items
    /\ tickets["c1"].order_id = 2

\* C23: every order written by Confirm carries as discount the discount the
\* ticket held when Confirm was pressed if that was not zero (the tier rule
\* then changes nothing), and otherwise the highest percentage among the
\* configured tiers the actor holds, taken of the subtotal of the order's
\* items (zero when the actor holds no tier)
C23_OrderDiscountRule ==
    [][\A t \in BagToSet(tasks) :
          (ConfirmSave(t) \/ ConfirmPaymentFails(t))
          => LET o == t.snap[t.order_id]
                 held == {RoleDiscounts[i].discount_percent : i \in
                             {j \in 1..Len(RoleDiscounts) :
                                 RoleDiscounts[j].role_id \in UserRoles(t.user)}}
                 best == IF held = {} THEN 0
                         ELSE CHOOSE p \in held : \A q \in held : q <= p
             IN IF t.entry.discount # 0
                THEN o.discount = t.entry.discount
                ELSE o.discount * 100 = best * CartTotal(o.items)]_vars

\* C24: a Confirm that fails (refused by the cart or stock checks, display
\* update that raises, order that is not persisted, payment step that fails)
\* leaves the ticket as it was when Confirm was pressed: order_id is not set,
\* discount and discount_reason are the ones of that moment
C24_FailedConfirmLeavesTicket ==
    [][/\ \A t \in BagToSet(tasks) :
             (\/ ConfirmAbort(t)
              \/ ConfirmPaymentFails(t)
              \/ (ConfirmSave(t) /\ t.order_id \notin DOMAIN ordersDb'))
             => /\ tickets'[t.ch].order_id = NoOrder
                /\ tickets'[t.ch].discount = t.entry.discount
                /\ tickets'[t.ch].discount_reason = t.entry.discount_reason
       /\ \A ch \in Channels : \A u \in Participants(ch) :
             (/\ ConfirmStart(ch, u)
              /\ reply'.result \in {"empty_cart", "product_missing", "insufficient_stock"})
             => tickets' = tickets]_vars

\* C25: the order Confirm writes holds as items exactly the cart lines of
\* the ticket (name, unit price, quantity), the status Pending Payment and
\* the discount of the ticket; afterwards no step changes the items of an
\* order of the ledger
C25_OrderHoldsCartAtConfirm ==
    [][/\ \A t \in BagToSet(tasks) :
             (ConfirmSave(t) /\ t.order_id \in DOMAIN ordersDb')
             => /\ ordersDb'[t.order_id].items = tickets[t.ch].cart
                /\ ordersDb'[t.order_id].status = "Pending Payment"
                /\ ordersDb'[t.order_id].discount = tickets[t.ch].discount
       /\ \A o \in (DOMAIN ordersDb) \cap (DOMAIN ordersDb') :
             ordersDb'[o].items = ordersDb[o].items]_vars

\* C26: in every reachable state claimed_by of a ticket is unset or the
\* identity of a staff member (the owners included): a Claim by an actor who
\* is not staff, such as the creator of the ticket, does not set it
C26_ClaimedByStaffOnly ==
    \A ch \in DOMAIN tickets :
        tickets[ch].claimed_by \in {None} \cup StaffIds \cup OwnerIds

\* C27: a Claim on a claimed ticket is answered with "already claimed" and
\* leaves the ticket as it is; a Claim on an unclaimed ticket makes the actor
\* the claimant.  Of two Claims that follow each other on an unclaimed ticket
\* therefore exactly the first one wins
C27_ClaimOnce ==
    [][\A ch \in Channels : \A u \in Users \cup OwnerIds :
          (ch \in DOMAIN tickets /\ Claim(ch, u))
          => IF tickets[ch].claimed_by # None
             THEN /\ reply' = Reply("Claim", "already_claimed")
                  /\ tickets' = tickets
             ELSE /\ reply' = Reply("Claim", "ok")
                  /\ tickets' = [tickets EXCEPT ![ch].claimed_by = u]]_vars

\* C27 witness: both staff tickets are claimed, one by the staff member and
\* one by the owner, and the last Claim was told so
C27_Witness ==
    /\ reply = Reply("Claim", "already_claimed")
    /\ tickets["c1"].claimed_by = "900"
    /\ tickets["c2"].claimed_by = "999"

\* C28: an Unclaim changes claimed_by only when the actor is the claimant or
\* an owner, and then clears it; an Unclaim by anyone else on a claimed ticket
\* leaves claimed_by as it is
C28_UnclaimByClaimantOrOwner ==
    [][\A ch \in Channels : \A u \in Users \cup OwnerIds :
          (ch \in DOMAIN tickets /\ Unclaim(ch, u))
          => IF tickets[ch].claimed_by = u \/ u \in OwnerIds
             THEN tickets'[ch].claimed_by = None
             ELSE tickets' = tickets]_vars

\* C28 witness: the Unclaim of somebody who is neither the claimant nor an
\* owner was refused; the staff member still holds the purchase ticket, which
\* is a gift for user 102, and the support ticket is unclaimed
C28_Witness ==
    /\ reply = Reply("Unclaim", "not_claimant")
    /\ tickets["c1"].claimed_by = "900"
    /\ tickets["c2"].claimed_by = None
    /\ tickets["c1"].gift_recipient_id = "102"

\* C30: /gift sets gift_recipient_id only on an active ticket of category
\* BUY and only for a recipient who is a human account other than the actor;
\* in every other case it is rejected and the ticket states stay as they are
C30_GiftOnlyHumanOther ==
    [][\A ch \in Channels \cup {"c3"} : \A u \in Users : \A recipient \in {"101", "102", "777"} :
          Gift(ch, u, recipient)
          => IF /\ ch \in DOMAIN tickets
                /\ tickets[ch].category = "BUY"
                /\ recipient # "777"
                /\ recipient # u
             THEN /\ reply' = Reply("Gift", "ok")
                  /\ tickets' = [tickets EXCEPT ![ch].gift_recipient_id = recipient]
             ELSE /\ reply'.result # "ok"
                  /\ tickets' = tickets]_vars

\* C30 witness: the purchase ticket is a gift for user 102 and a later /gift
\* for the bot account was rejected
C30_Witness ==
    /\ reply = Reply("Gift", "bot_recipient")
    /\ tickets["c1"].gift_recipient_id = "102"
    /\ tickets["c2"].gift_recipient_id = None

C31_GiftDelivery ==
    [][/\ \A t \in BagToSet(tasks) :
             DeliverFinish(t)
             => LET ch == t.snap[t.order_id].channel_id
                IN (/\ ch \in DOMAIN tickets
                    /\ tickets[ch].order_id = t.order_id
                    /\ tickets[ch].gift_recipient_id # None)
                   => /\ reply'.dm_to = tickets[ch].gift_recipient_id
                      /\ ~reply'.points_shown
       /\ \A u \in StaffIds : \A order_id \in DOMAIN ordersDb :
             (DeliverStart(u, order_id) /\ reply' = Reply("MarkDelivered", "started"))
             => usersDb' = PointsAfterDelivery(usersDb, ordersDb[order_id].user_id)]_vars

\* C32: when the Close of a ticket has completed, the registry of the tickets
\* holds no entry for its channel, whether or not the transcript was sent and
\* whatever handlers ran on the ticket before or during the Close
C32_ClosedTicketRemoved ==
    [][\A t \in BagToSet(tasks) :
          CloseFinish(t) => t.ch \notin DOMAIN tickets']_vars

(***************************************************************************)
(* The cart summary: ShoppingCartView.update_cart_embed                    *)
(***************************************************************************)
\* lines 562-564 and 581-582: the grand total of the footer
GrandTotal(ticket_state) ==
    IF DOMAIN ticket_state.cart = {} THEN 0
    ELSE LET total == CartTotal(ticket_state.cart)
         IN IF total - ticket_state.discount > 0 THEN total - ticket_state.discount ELSE 0

\* lines 562-563 and 577-578: the line of the discount is part of the
\* description of a cart that holds something
DiscountLineShown(ticket_state) ==
    DOMAIN ticket_state.cart # {} /\ ticket_state.discount > 0

\* the handler has answered with a success and shows the summary again
SummaryRefreshed(answer) ==
    \/ answer.op \in {"AddItem", "ApplyCode", "Cancel"} /\ answer.result = "ok"
    \/ answer.op = "Confirm" /\ answer.result = "confirmed"

\* C33: the grand total of the summary shown after a successful AddItem,
\* ApplyCode, Confirm or Cancel is max(0, sum of price times quantity over
\* the cart minus the discount of the ticket), and the line of the discount
\* is shown exactly when the discount is greater than zero
C33_GrandTotal ==
    [][SummaryRefreshed(reply') =>
         \A ch \in DOMAIN tickets' :
            (ch \notin DOMAIN tickets \/ tickets'[ch] # tickets[ch]) =>
               LET ticket_state == tickets'[ch]
                   due == CartTotal(ticket_state.cart) - ticket_state.discount
               IN /\ GrandTotal(ticket_state) = IF due > 0 THEN due ELSE 0
                  /\ DiscountLineShown(ticket_state) <=> ticket_state.discount > 0]_vars

\* C34: AddItem of a product the cart does not hold inserts it with quantity 1
\* and the name and the price the catalog has at that moment; AddItem of a
\* product the cart holds raises only its quantity by 1 and keeps the name and
\* the unit price of the first add, whatever the catalog says by then; the
\* other lines of the cart stay as they are
C34_AddItemCapturesPrice ==
    [][\A ch \in DOMAIN tickets, pid \in Products :
          (AddItem(ch, pid) /\ reply' = Reply("AddItem", "ok")) =>
             LET old == tickets[ch].cart
                 new == tickets'[ch].cart
             IN /\ DOMAIN new = DOMAIN old \cup {pid}
                /\ \A p \in DOMAIN old \ {pid} : new[p] = old[p]
                /\ IF pid \in DOMAIN old
                   THEN /\ new[pid].quantity = old[pid].quantity + 1
                        /\ new[pid].name = old[pid].name
                        /\ new[pid].price = old[pid].price
                   ELSE new[pid] = [name |-> productsDb[pid].name,
                                    price |-> productsDb[pid].price, quantity |-> 1]]_vars

\* a second unit of product A has just been added to a cart that holds
\* nothing else, at a moment when the catalog gives A another name and
\* another price than the cart
C34_Witness ==
    /\ reply = Reply("AddItem", "ok")
    /\ "c1" \in DOMAIN tickets
    /\ DOMAIN tickets["c1"].cart = {"A"}
    /\ tickets["c1"].cart["A"].quantity = 2
    /\ tickets["c1"].cart["A"].price # productsDb["A"].price
    /\ tickets["c1"].cart["A"].name # productsDb["A"].name

C36_SaveChangesOwnOrder ==
    [][/\ DOMAIN ordersDb \subseteq DOMAIN ordersDb'
       /\ Cardinality({o \in DOMAIN ordersDb' :
                          o \notin DOMAIN ordersDb \/ ordersDb'[o] # ordersDb[o]}) <= 1]_vars

\* C37: at any time at most one order with the status Pending Payment exists
\* for the channel of a ticket
C37_OnePendingOrderPerTicket ==
    \A ch \in Channels :
       Cardinality({o \in DOMAIN ordersDb :
                       ordersDb[o].channel_id = ch /\ ordersDb[o].status = "Pending Payment"}) <= 1

\* C38: for every product with a finite stock, the quantities of it in the
\* orders that are Pending Payment or Payment Received add up to no more than
\* its stock
C38_NoOverselling ==
    \A pid \in DOMAIN productsDb :
       productsDb[pid].stock # InfiniteStock =>
          LET open == {o \in DOMAIN ordersDb :
                          ordersDb[o].status \in {"Pending Payment", "Payment Received"}}
          IN SumOver([o \in open |-> CartQty(ordersDb[o].items, pid)], open)
                <= productsDb[pid].stock

\* C39: the effects of a delivery are applied at most once per order: the
\* points handed out (one delivery gives its buyer one unit) never exceed the
\* number of orders ever numbered, and no delivery starts on an order while
\* another delivery of it is under way; a finite stock never becomes negative
\* and a delivery leaves the infinite-stock sentinel as it is
C39_DeliveryEffectsOnce ==
    /\ [](/\ SumOver(usersDb, DOMAIN usersDb) <= LastOrderNumber(countersDb)
          /\ \A pid \in DOMAIN productsDb :
                productsDb[pid].stock = InfiniteStock \/ productsDb[pid].stock >= 0)
    /\ [][\A u \in Users, order_id \in DOMAIN ordersDb :
             (DeliverStart(u, order_id) /\ reply' = Reply("MarkDelivered", "started"))
             => /\ \A t \in BagToSet(tasks) : ~(t.kind = "deliver" /\ t.order_id = order_id)
                /\ \A pid \in DOMAIN productsDb :
                      productsDb[pid].stock = InfiniteStock
                         => productsDb'[pid].stock = InfiniteStock]_vars

\* C40: in every reachable state each user is the creator of at most one Open
\* ticket of the registry
C40_OneOpenTicketPerUser ==
    \A u \in Users :
       Cardinality({ch \in DOMAIN tickets :
                       tickets[ch].creator_id = u /\ tickets[ch].status = "Open"}) <= 1
====
